---- MODULE Spec2Model ----
(***************************************************************************)
(* Lifecycle of the dprint formatting backend in the VS Code extension.    *)
(*                                                                         *)
(* src/src/extension.ts holds three files one after the other:             *)
(*   lines   1-153  extension.ts, the variant with the plain re-entry      *)
(*                  guard (called "guard" below);                          *)
(*   lines 155-306  extension.ts, the variant with the 250 ms debounce     *)
(*                  timer and the pending flag (called "debounce");        *)
(*   lines 308-398  lsp.ts, the backend session that owns the language     *)
(*                  client (activateLsp).                                  *)
(*                                                                         *)
(* JavaScript runs one callback at a time, so every action below is one    *)
(* synchronous stretch of code: from an event or a promise settling up to  *)
(* the next await.                                                         *)
(***************************************************************************)
EXTENDS Integers, Sequences, FiniteSets, TLC

\* ---------------------------------------------------------------- bounds
\* number of calls of trigger() / reInitializeBackend by event sources,
\* the one made by activate() included
MaxTriggers == 4
\* size of the pool of timer ids handed out by setTimeout
MaxTimers == 2
\* size of the pool of LanguageClient object ids
MaxHandles == 2

\* number of "Dprint configuration changed" prompts that can be open at once
MaxPrompts == 2

RunIds == 1..MaxTriggers
TimerIds == 1..MaxTimers
HandleIds == 1..MaxHandles

\* the two versions of activate() in the source
Variants == {"debounce", "guard"}

\* the two places that call clearGlobalState() at shutdown
ClearCalls == {"deactivate", "subscription"}

\* ------------------------------------------------ outcomes of the awaits
\* await client.stop(2_000): the promise resolves, or rejects (the stop
\* timed out or failed)
StopOutcomes == {"stopped", "failed"}
\* await workspaceHasConfigFile(): true or false
DiscoveryOutcomes == {TRUE, FALSE}
\* await DprintExecutable.resolveCmdPath(...): a path, or a rejection
ResolveOutcomes == {"path", "failed"}
\* await client.start(): resolves, or rejects
StartOutcomes == {"started", "failed"}

\* the lines the logger can receive
LogLines ==
  { "none", "Extension active!", "Error initializing:",
    "Configuration file not found.", "Started experimental language server." }

\* how backend.reInitialize() ended
RunResults ==
  { "none", "ConfigAbsent", "Started", "TeardownFailed", "TeardownTypeError",
    "ResolutionFailed", "ConnectionFailed" }

\* backend.isLsp of the backend made by activateLsp, line 327
BackendIsLsp == TRUE

\* what the user does with the "Dprint configuration changed" prompt
PromptAnswers == {"Refresh", "dismissed"}

VARIABLES
  variant,              \* which activate() is running
  isReInitializing,     \* extension.ts: let isReInitializing
  pendingReInit,        \* extension.ts: let pendingReInit (debounce variant)
  reInitializeTimeout,  \* extension.ts: let reInitializeTimeout; 0 = undefined
  timers,               \* timers armed by setTimeout, not yet fired or cleared
  rpc,                  \* per run of reInitializeBackend: where it is suspended
  rres,                 \* per run: how backend.reInitialize() ended
  runCount,             \* number of runs begun (backend.reInitialize() calls)
  client,               \* lsp.ts: let client; 0 = undefined
  live,                 \* LanguageClient objects constructed and not disposed
  subscribed,           \* context.subscriptions not yet disposed
  globalState,          \* module variable globalState is set
  cpc,                  \* per clearGlobalState() call: where it is suspended
  lastLog,              \* last line given to the logger
  lastResult,           \* result of the most recently completed run
  unhandled,            \* a rejection escaped reInitializeBackend
  trigLog,              \* history: one record per trigger, in arrival order
  configChangePromptVisible,  \* extension.ts (guard variant), line 55
  openPrompts,          \* "Dprint configuration changed" prompts on screen
  hasShownLspWarning,   \* extension.ts, lines 89 and 237
  configuredLsp,        \* what isLsp() returns: the dprint.experimentalLsp setting
  lastSettings          \* history: the last settings change handled

vars ==
  << variant, isReInitializing, pendingReInit, reInitializeTimeout, timers,
     rpc, rres, runCount, client, live, subscribed, globalState, cpc,
     lastLog, lastResult, unhandled, trigLog,
     configChangePromptVisible, openPrompts, hasShownLspWarning,
     configuredLsp, lastSettings >>

promptVars == << configChangePromptVisible, openPrompts >>
settingsVars == << hasShownLspWarning, configuredLsp, lastSettings >>
uiVars == << promptVars, settingsVars >>

ctlVars == << isReInitializing, pendingReInit, reInitializeTimeout, timers >>
histVars == << lastLog, lastResult, unhandled >>
shutdownVars == << subscribed, globalState, cpc >>

\* ------------------------------------------------------------- helpers
\* a run is inside backend.reInitialize(), suspended at one of its awaits
InBackend(r) == rpc[r] \in {"stop", "discover", "resolve", "start"}
\* backend.reInitialize() has settled, reInitializeBackend not yet resumed
Settled(r) == rpc[r] \in {"returned", "threw"}
\* a run of reInitializeBackend is between its guard and the end of finally
InProgress(r) == InBackend(r) \/ Settled(r)
RunsInBackend == {r \in RunIds : InBackend(r)}
RunsInProgress == {r \in RunIds : InProgress(r)}

Min(S) == CHOOSE x \in S : \A y \in S : x <= y

\* setTimeout returns an id no armed timer has
FreshTimer(armed) == Min(TimerIds \ armed)
\* new LanguageClient(...) is an object distinct from every live one
FreshHandle(alive) == Min(HandleIds \ alive)

\* The controller state as a record, for the operators below.
Ctl ==
  [ isReInitializing |-> isReInitializing, pendingReInit |-> pendingReInit,
    reInitializeTimeout |-> reInitializeTimeout, timers |-> timers ]

\* Variant of clearTimeout below that cancels nothing.
ClearTimeoutNoOp(armed, h) == armed

\* clearTimeout(h): no effect on undefined or on a timer that already fired
ClearTimeout(armed, h) == armed \ {h}

\* Variant of the function below that sets the pending flag on every call,
\* idle or not.
DebounceAlwaysPending(c) ==
  LET cleared == IF c.reInitializeTimeout # 0
                 THEN ClearTimeout(c.timers, c.reInitializeTimeout)
                 ELSE c.timers
  IN IF c.isReInitializing
     THEN [c EXCEPT !.timers = cleared, !.pendingReInit = TRUE]
     ELSE [c EXCEPT !.timers = cleared \cup {FreshTimer(cleared)},
                    !.reInitializeTimeout = FreshTimer(cleared),
                    !.pendingReInit = TRUE]

\* Variant of the function below that arms the timer during a run as well.
DebounceArmsDuringRun(c) ==
  LET cleared == IF c.reInitializeTimeout # 0
                 THEN ClearTimeout(c.timers, c.reInitializeTimeout)
                 ELSE c.timers
  IN [c EXCEPT !.timers = cleared \cup {FreshTimer(cleared)},
               !.reInitializeTimeout = FreshTimer(cleared),
               !.pendingReInit = c.isReInitializing \/ c.pendingReInit]

\* Variant of the function below that forgets clearTimeout: a second call
\* inside the window leaves the first timer armed.
DebounceWithoutClearTimeout(c) ==
  IF c.isReInitializing
  THEN [c EXCEPT !.pendingReInit = TRUE]
  ELSE [c EXCEPT !.timers = c.timers \cup {FreshTimer(c.timers)},
                 !.reInitializeTimeout = FreshTimer(c.timers)]

\* Variant of the function below that forgets the pending flag: a call
\* during a run only clears the timer.
DebounceDropsMidRun(c) ==
  LET cleared == IF c.reInitializeTimeout # 0
                 THEN ClearTimeout(c.timers, c.reInitializeTimeout)
                 ELSE c.timers
  IN IF c.isReInitializing
     THEN [c EXCEPT !.timers = cleared]
     ELSE [c EXCEPT !.timers = cleared \cup {FreshTimer(cleared)},
                    !.reInitializeTimeout = FreshTimer(cleared)]

\* debounceReInitializeBackend(), lines 192-202
DebounceReInitializeBackend(c) ==
  LET cleared == IF c.reInitializeTimeout # 0
                 THEN ClearTimeout(c.timers, c.reInitializeTimeout)
                 ELSE c.timers
  IN IF c.isReInitializing
     THEN [c EXCEPT !.timers = cleared, !.pendingReInit = TRUE]
     ELSE [c EXCEPT !.timers = cleared \cup {FreshTimer(cleared)},
                    !.reInitializeTimeout = FreshTimer(cleared)]

\* debounceReInitializeBackend can run: setTimeout has an unused id to hand out
CanDebounce(c) == c.isReInitializing \/ TimerIds \ c.timers # {}

\* Variant of the guard below that lets every call through.
GuardNeverBlocks(flag) == FALSE

\* the guard at the top of reInitializeBackend, lines 38 and 205
GuardBlocks(flag) == flag

\* Variant of the function below that skips the teardown of the previous
\* client.
FirstAwaitSkipsTeardown(cl) == "discover"

\* backend.reInitialize() up to its first await, lines 329-334: with a
\* client it awaits client.stop, without one it awaits the config discovery
FirstAwait(cl) == IF cl # 0 THEN "stop" ELSE "discover"

\* Variant of the finally block below that clears the pending flag without
\* arming the timer.
FinallyWithoutFollowUp(c) ==
  [c EXCEPT !.isReInitializing = FALSE, !.pendingReInit = FALSE]

\* Variant of the finally block below that arms the timer but leaves the
\* pending flag set.
FinallyKeepsPending(c) ==
  LET c1 == [c EXCEPT !.isReInitializing = FALSE]
  IN IF c1.pendingReInit THEN DebounceReInitializeBackend(c1) ELSE c1

\* finally block: what the debounce variant does with the pending flag,
\* lines 216-221; isReInitializing is already false when it runs
FinallyDebounce(c) ==
  LET c1 == [c EXCEPT !.isReInitializing = FALSE]
  IN IF c1.pendingReInit
     THEN DebounceReInitializeBackend([c1 EXCEPT !.pendingReInit = FALSE])
     ELSE c1

\* finally block of the guard variant, lines 47-49
FinallyGuard(c) == [c EXCEPT !.isReInitializing = FALSE]

\* Variant of the function below that logs the info line on every path.
ControllerLogAlwaysInfo(threw) == "Extension active!"

\* Variant of the function below for a cleanup written after the try/catch
\* instead of in finally: it is skipped when the run threw.
FinallyOnlyOnSuccess(threw) == ~threw

\* the finally block runs whether backend.reInitialize() returned or threw,
\* lines 47 and 215
FinallyRuns(threw) == TRUE

\* try/catch of reInitializeBackend, lines 42-46 and 210-214: the line it logs
ControllerLog(threw) ==
  IF threw THEN "Error initializing:" ELSE "Extension active!"

\* whether an error thrown by backend.reInitialize() leaves
\* reInitializeBackend: the catch clause takes every error
Propagates(threw) == FALSE

\* Variant of the teardown below that clears the variable without disposing
\* the client.
TeardownWithoutDispose(alive, cl) == alive

\* teardown of the previous client after client.stop resolved, lines 331-332
\* and 377-378: client.dispose(); client = undefined
TeardownLive(alive, cl) == alive \ {cl}

SetCtl(c) ==
  /\ isReInitializing' = c.isReInitializing
  /\ pendingReInit' = c.pendingReInit
  /\ reInitializeTimeout' = c.reInitializeTimeout
  /\ timers' = c.timers

DuringRun == RunsInProgress # {}
LogTrigger == trigLog' = Append(trigLog, [runs |-> runCount, during |-> DuringRun])

\* ------------------------------------------------------------------ Init
\* The state when activate() has returned.  The debounce variant ends with
\* debounceReInitializeBackend() (line 270): one timer is armed.  The guard
\* variant ends with reInitializeBackend() (line 117): run 1 is suspended at
\* the config discovery, as client is undefined.
Init ==
  /\ variant \in Variants
  /\ pendingReInit = FALSE
  /\ IF variant = "debounce"
     THEN /\ isReInitializing = FALSE
          /\ reInitializeTimeout = FreshTimer({})
          /\ timers = {FreshTimer({})}
          /\ rpc = [r \in RunIds |-> "notStarted"]
          /\ runCount = 0
     ELSE /\ isReInitializing = TRUE
          /\ reInitializeTimeout = 0
          /\ timers = {}
          /\ rpc = [r \in RunIds |-> IF r = 1 THEN FirstAwait(0) ELSE "notStarted"]
          /\ runCount = 1
  /\ rres = [r \in RunIds |-> "none"]
  /\ client = 0
  /\ live = {}
  /\ subscribed = TRUE
  /\ globalState = TRUE
  /\ cpc = [c \in ClearCalls |-> "notCalled"]
  /\ lastLog = "none"
  /\ lastResult = "none"
  /\ unhandled = FALSE
  /\ trigLog = << [runs |-> 0, during |-> FALSE] >>
  /\ configChangePromptVisible = FALSE
  /\ openPrompts = 0
  /\ hasShownLspWarning = FALSE
  /\ configuredLsp = BackendIsLsp
  /\ lastSettings = [mismatch |-> FALSE, shownBefore |-> FALSE,
                     outcome |-> "none", tick |-> FALSE]

\* ------------------------------------------------------------ controller
\* reInitializeBackend() from its guard to the first await of
\* backend.reInitialize(), lines 37-43 and 204-211
BeginRun ==
  /\ runCount < MaxTriggers
  /\ isReInitializing' = TRUE
  /\ runCount' = runCount + 1
  /\ rpc' = [rpc EXCEPT ![runCount + 1] = FirstAwait(client)]

\* An event source (restart command, workspace folders, config file watcher,
\* settings change) calls debounceReInitializeBackend, lines 226-234, 259.
Trigger ==
  /\ variant = "debounce"
  /\ subscribed
  /\ Len(trigLog) < MaxTriggers
  /\ CanDebounce(Ctl)
  /\ SetCtl(DebounceReInitializeBackend(Ctl))
  /\ LogTrigger
  /\ UNCHANGED << uiVars, variant, rpc, rres, runCount, client, live, shutdownVars, histVars >>

\* The debounce timer fires and calls reInitializeBackend, lines 201, 204-211.
TimerFire ==
  \E t \in timers :
    /\ variant = "debounce"
    /\ timers' = timers \ {t}
    /\ IF GuardBlocks(isReInitializing)
       THEN /\ pendingReInit' = TRUE
            /\ UNCHANGED << isReInitializing, rpc, runCount >>
       ELSE /\ BeginRun
            /\ UNCHANGED pendingReInit
    /\ UNCHANGED << uiVars, variant, reInitializeTimeout, rres, client, live,
                    shutdownVars, histVars, trigLog >>

\* Guard variant: the restart command, a workspace folder change or an
\* accepted prompt calls reInitializeBackend, lines 37-43, 68, 75, 78.
Request ==
  /\ variant = "guard"
  /\ subscribed
  /\ Len(trigLog) < MaxTriggers
  /\ LogTrigger
  /\ IF GuardBlocks(isReInitializing)
     THEN UNCHANGED << isReInitializing, rpc, runCount >>
     ELSE BeginRun
  /\ UNCHANGED << uiVars, variant, pendingReInit, reInitializeTimeout, timers, rres,
                  client, live, shutdownVars, histVars >>

\* reInitializeBackend resumes after backend.reInitialize() settled: the
\* log line, the catch and the finally block, lines 44-49 and 212-222.
RunComplete(r) ==
  /\ Settled(r)
  /\ variant = "debounce" => CanDebounce([Ctl EXCEPT !.isReInitializing = FALSE])
  /\ lastLog' = ControllerLog(rpc[r] = "threw")
  /\ unhandled' = (unhandled \/ Propagates(rpc[r] = "threw"))
  /\ lastResult' = rres[r]
  /\ IF FinallyRuns(rpc[r] = "threw")
     THEN SetCtl(IF variant = "debounce" THEN FinallyDebounce(Ctl) ELSE FinallyGuard(Ctl))
     ELSE UNCHANGED ctlVars
  /\ rpc' = [rpc EXCEPT ![r] = "done"]
  /\ rres' = [rres EXCEPT ![r] = "none"]
  /\ UNCHANGED << uiVars, variant, runCount, client, live, shutdownVars, trigLog >>

\* --------------------------------------------------- backend.reInitialize
\* await client.stop(2_000) settles, lines 330-334.  Resolved: the client
\* variable is read again; if a concurrent dispose() has cleared it,
\* client.dispose() throws a TypeError.  Rejected: reInitialize throws.
StopSettles(r, o) ==
  /\ rpc[r] = "stop"
  /\ IF o = "stopped"
     THEN IF client # 0
          THEN /\ live' = TeardownLive(live, client)
               /\ client' = 0
               /\ rpc' = [rpc EXCEPT ![r] = "discover"]
               /\ UNCHANGED rres
          ELSE /\ rpc' = [rpc EXCEPT ![r] = "threw"]
               /\ rres' = [rres EXCEPT ![r] = "TeardownTypeError"]
               /\ UNCHANGED << client, live >>
     ELSE /\ rpc' = [rpc EXCEPT ![r] = "threw"]
          /\ rres' = [rres EXCEPT ![r] = "TeardownFailed"]
          /\ UNCHANGED << client, live >>
  /\ UNCHANGED << uiVars, variant, ctlVars, runCount, shutdownVars, histVars, trigLog >>

\* await workspaceHasConfigFile() settles, lines 334-350
Discovered(r, found) ==
  /\ rpc[r] = "discover"
  /\ IF found
     THEN /\ rpc' = [rpc EXCEPT ![r] = "resolve"]
          /\ UNCHANGED << rres, lastLog >>
     ELSE /\ lastLog' = "Configuration file not found."
          /\ rpc' = [rpc EXCEPT ![r] = "returned"]
          /\ rres' = [rres EXCEPT ![r] = "ConfigAbsent"]
  /\ UNCHANGED << uiVars, variant, ctlVars, runCount, client, live, shutdownVars,
                  lastResult, unhandled, trigLog >>

\* await DprintExecutable.resolveCmdPath(...) settles, lines 342-371: on a
\* path the client is constructed, assigned and started
Resolved(r, o) ==
  /\ rpc[r] = "resolve"
  /\ IF o = "path"
     THEN /\ HandleIds \ live # {}
          /\ client' = FreshHandle(live)
          /\ live' = live \cup {FreshHandle(live)}
          /\ rpc' = [rpc EXCEPT ![r] = "start"]
          /\ UNCHANGED rres
     ELSE /\ rpc' = [rpc EXCEPT ![r] = "threw"]
          /\ rres' = [rres EXCEPT ![r] = "ResolutionFailed"]
          /\ UNCHANGED << client, live >>
  /\ UNCHANGED << uiVars, variant, ctlVars, runCount, shutdownVars, histVars, trigLog >>

\* await client.start() settles, lines 371-373
StartSettles(r, o) ==
  /\ rpc[r] = "start"
  /\ IF o = "started"
     THEN /\ lastLog' = "Started experimental language server."
          /\ rpc' = [rpc EXCEPT ![r] = "returned"]
          /\ rres' = [rres EXCEPT ![r] = "Started"]
     ELSE /\ rpc' = [rpc EXCEPT ![r] = "threw"]
          /\ rres' = [rres EXCEPT ![r] = "ConnectionFailed"]
          /\ UNCHANGED lastLog
  /\ UNCHANGED << uiVars, variant, ctlVars, runCount, client, live, shutdownVars,
                  lastResult, unhandled, trigLog >>

\* ---------------------------------------------------------------- shutdown
\* clearGlobalState() up to its first await, lines 299-302, 172-179, 374-381:
\* with globalState unset nothing is called; otherwise backend.dispose()
\* awaits client.stop when there is a client, and returns at once when not.
CallClearGlobalState(c) ==
  cpc' = [cpc EXCEPT ![c] =
            IF ~globalState THEN "done"
            ELSE IF client # 0 THEN "stop" ELSE "settled"]

\* the host calls deactivate(), lines 274-276
Deactivate ==
  /\ cpc["deactivate"] = "notCalled"
  /\ CallClearGlobalState("deactivate")
  /\ UNCHANGED << uiVars, variant, ctlVars, rpc, rres, runCount, client, live,
                  subscribed, globalState, histVars, trigLog >>

\* the host disposes context.subscriptions: the event registrations of
\* lines 226-262 go away, and the last entry calls clearGlobalState(),
\* lines 264-268
DisposeSubscriptions ==
  /\ cpc["subscription"] = "notCalled"
  /\ subscribed' = FALSE
  /\ CallClearGlobalState("subscription")
  /\ UNCHANGED << uiVars, variant, ctlVars, rpc, rres, runCount, client, live,
                  globalState, histVars, trigLog >>

\* await client.stop(2_000) inside backend.dispose() settles, lines 376-380;
\* a rejection, or the TypeError of client.dispose() on a client variable
\* that was cleared meanwhile, is swallowed by GlobalPluginState.dispose
DisposeStopSettles(c, o) ==
  /\ cpc[c] = "stop"
  /\ cpc' = [cpc EXCEPT ![c] = "settled"]
  /\ IF o = "stopped" /\ client # 0
     THEN /\ live' = TeardownLive(live, client)
          /\ client' = 0
     ELSE UNCHANGED << client, live >>
  /\ UNCHANGED << uiVars, variant, ctlVars, rpc, rres, runCount, subscribed,
                  globalState, histVars, trigLog >>

\* GlobalPluginState.dispose and clearGlobalState resume, lines 178, 301
ClearGlobalStateDone(c) ==
  /\ cpc[c] = "settled"
  /\ cpc' = [cpc EXCEPT ![c] = "done"]
  /\ globalState' = FALSE
  /\ UNCHANGED << uiVars, variant, ctlVars, rpc, rres, runCount, client, live,
                  subscribed, histVars, trigLog >>

\* ------------------------------------------------------------------ Next
Next ==
  \/ Trigger
  \/ TimerFire
  \/ Request
  \/ \E r \in RunIds : RunComplete(r)
  \/ \E r \in RunIds, o \in StopOutcomes : StopSettles(r, o)
  \/ \E r \in RunIds, o \in DiscoveryOutcomes : Discovered(r, o)
  \/ \E r \in RunIds, o \in ResolveOutcomes : Resolved(r, o)
  \/ \E r \in RunIds, o \in StartOutcomes : StartSettles(r, o)
  \/ Deactivate
  \/ DisposeSubscriptions
  \/ \E c \in ClearCalls, o \in StopOutcomes : DisposeStopSettles(c, o)
  \/ \E c \in ClearCalls : ClearGlobalStateDone(c)

Spec == Init /\ [][Next]_vars

TypeOK ==
  /\ variant \in Variants
  /\ isReInitializing \in BOOLEAN
  /\ pendingReInit \in BOOLEAN
  /\ reInitializeTimeout \in TimerIds \cup {0}
  /\ timers \subseteq TimerIds
  /\ rpc \in [RunIds -> {"notStarted", "stop", "discover", "resolve", "start",
                         "returned", "threw", "done"}]
  /\ rres \in [RunIds -> RunResults]
  /\ runCount \in 0..MaxTriggers
  /\ client \in HandleIds \cup {0}
  /\ live \subseteq HandleIds
  /\ cpc \in [ClearCalls -> {"notCalled", "stop", "settled", "done"}]
  /\ lastLog \in LogLines
  /\ lastResult \in RunResults
  /\ configChangePromptVisible \in BOOLEAN
  /\ openPrompts \in 0..MaxPrompts
  /\ hasShownLspWarning \in BOOLEAN
  /\ configuredLsp \in BOOLEAN
  /\ lastSettings \in [mismatch : BOOLEAN, shownBefore : BOOLEAN,
                       outcome : {"none", "warned", "triggered"},
                       tick : BOOLEAN]

\* ------------------------------------------------- prompt and settings
\* Variant of the check below that never finds a prompt open.
PromptNeverBlocked(visible) == FALSE

\* the check at the top of promptReInitializeBackend, lines 57-59
PromptBlocked(visible) == visible

\* promptReInitializeBackend() up to showInformationMessage, lines 56-65
PromptReInitializeBackend ==
  IF PromptBlocked(configChangePromptVisible)
  THEN UNCHANGED promptVars
  ELSE /\ openPrompts < MaxPrompts
       /\ configChangePromptVisible' = TRUE
       /\ openPrompts' = openPrompts + 1

\* Guard variant: the file watcher reports a changed, created or deleted
\* config file, lines 82-86.
ConfigFileChange ==
  /\ variant = "guard"
  /\ subscribed
  /\ PromptReInitializeBackend
  /\ UNCHANGED << settingsVars, variant, ctlVars, rpc, rres, runCount, client,
                  live, shutdownVars, histVars, trigLog >>

\* The user answers the prompt: the then-callback of lines 65-70.
PromptAnswered(a) ==
  /\ variant = "guard"
  /\ openPrompts > 0
  /\ openPrompts' = openPrompts - 1
  /\ configChangePromptVisible' = FALSE
  /\ IF a = "Refresh"
     THEN /\ Len(trigLog) < MaxTriggers
          /\ LogTrigger
          /\ IF GuardBlocks(isReInitializing)
             THEN UNCHANGED << isReInitializing, rpc, runCount >>
             ELSE BeginRun
     ELSE UNCHANGED << isReInitializing, rpc, runCount, trigLog >>
  /\ UNCHANGED << settingsVars, variant, pendingReInit, reInitializeTimeout,
                  timers, rres, client, live, shutdownVars, histVars >>

\* Variant of the condition below without the hasShownLspWarning test.
ShowsWarningOnEveryMismatch(configured, shown) == configured # BackendIsLsp

\* the condition of lines 92 and 240: isLsp() !== backend?.isLsp &&
\* !hasShownLspWarning
ShowsWarning(configured, shown) == configured # BackendIsLsp /\ ~shown

\* A settings change that affects "dprint" is handled, lines 90-109 and
\* 238-262; mode is the value of dprint.experimentalLsp after the change.
\* The "Reload" answer to the warning reloads the window and is not modelled.
SettingsChange(mode) ==
  /\ subscribed
  /\ configuredLsp' = mode
  /\ IF ShowsWarning(mode, hasShownLspWarning)
     THEN /\ hasShownLspWarning' = TRUE
          /\ lastSettings' = [mismatch |-> mode # BackendIsLsp,
                              shownBefore |-> hasShownLspWarning,
                              outcome |-> "warned",
                              tick |-> ~lastSettings.tick]
          /\ UNCHANGED << promptVars, ctlVars, trigLog >>
     ELSE /\ hasShownLspWarning' = FALSE
          /\ lastSettings' = [mismatch |-> mode # BackendIsLsp,
                              shownBefore |-> hasShownLspWarning,
                              outcome |-> "triggered",
                              tick |-> ~lastSettings.tick]
          /\ IF variant = "debounce"
             THEN /\ Len(trigLog) < MaxTriggers
                  /\ CanDebounce(Ctl)
                  /\ SetCtl(DebounceReInitializeBackend(Ctl))
                  /\ LogTrigger
                  /\ UNCHANGED promptVars
             ELSE /\ PromptReInitializeBackend
                  /\ UNCHANGED << ctlVars, trigLog >>
  /\ UNCHANGED << variant, rpc, rres, runCount, client, live, shutdownVars,
                  histVars >>

\* every handler of the extension
FullNext ==
  \/ Next
  \/ ConfigFileChange
  \/ \E a \in PromptAnswers : PromptAnswered(a)
  \/ \E mode \in BOOLEAN : SettingsChange(mode)

FullSpec == Init /\ [][FullNext]_vars

\* ------------------------------------------------------------- fairness
\* Armed timers fire, every await of a run settles and the continuation of
\* a settled run is scheduled; nothing obliges an event source to trigger
\* or the host to shut down.
RunStep ==
  \/ \E r \in RunIds : RunComplete(r)
  \/ \E r \in RunIds, o \in StopOutcomes : StopSettles(r, o)
  \/ \E r \in RunIds, o \in DiscoveryOutcomes : Discovered(r, o)
  \/ \E r \in RunIds, o \in ResolveOutcomes : Resolved(r, o)
  \/ \E r \in RunIds, o \in StartOutcomes : StartSettles(r, o)

FairSpec == Spec /\ WF_vars(TimerFire) /\ WF_vars(RunStep)

\* ------------------------------------------------------ derived notions
\* the controller is at rest: no run, no pending request, no timer armed
AtRest ==
  /\ RunsInProgress = {}
  /\ ~isReInitializing
  /\ ~pendingReInit
  /\ timers = {}

TriggerIdx == 1..Len(trigLog)
\* triggers that arrived while run r was in progress
TriggersDuring(r) == {i \in TriggerIdx : trigLog[i].runs = r /\ trigLog[i].during}
\* triggers that arrived after run r completed
TriggersAfter(r) ==
  {i \in TriggerIdx : trigLog[i].runs > r \/ (trigLog[i].runs = r /\ ~trigLog[i].during)}
\* triggers that arrived before the first timer fired
TriggersBeforeFirstRun == {i \in TriggerIdx : trigLog[i].runs = 0}

\* both callers of clearGlobalState() have returned
ShutdownCompleted == \A c \in ClearCalls : cpc[c] = "done"

\* ------------------------------------------------------------------- C1
\* C1 (no-overlap): at most one call of backend.reInitialize() is in
\* progress in any state, in both variants; while one is in progress
\* isReInitializing is true, and isReInitializing is true only while
\* exactly one run of reInitializeBackend is between its guard and the end
\* of its finally block.
C1_NoOverlap ==
  /\ Cardinality(RunsInBackend) <= 1
  /\ RunsInBackend # {} => isReInitializing
  /\ isReInitializing <=> Cardinality(RunsInProgress) = 1

\* a second run is inside the backend after a request arrived during a run
C1_Witness ==
  /\ runCount >= 2
  /\ RunsInBackend # {}
  /\ \E i \in TriggerIdx : trigLog[i].during

\* ------------------------------------------------------------------- C2
\* C2 (mid-run coalescing): in the debounce variant, if K >= 1 triggers
\* arrived during run r and none after it completed, at most one run
\* follows r, it begins after r has completed, and once the controller is
\* at rest exactly one run has followed r.
C2_MidRunCoalescing ==
  variant = "debounce" =>
    \A r \in 1..runCount :
      (TriggersDuring(r) # {} /\ TriggersAfter(r) = {}) =>
        /\ runCount <= r + 1
        /\ runCount = r + 1 => rpc[r] = "done"
        /\ AtRest => runCount = r + 1

\* two triggers arrived during run 1, nothing later, and the controller is
\* at rest after the one follow-up run
C2_Witness ==
  /\ variant = "debounce"
  /\ Cardinality(TriggersDuring(1)) >= 2
  /\ TriggersAfter(1) = {}
  /\ AtRest
  /\ runCount = 2

\* ------------------------------------------------------------------- C3
\* C3 (debounce coalescing): in the debounce variant, as long as every
\* trigger so far arrived before the first timer fired there is at most one
\* run, and exactly one once the controller is at rest; with one more
\* trigger, arrived after that run completed, there are at most two runs,
\* and exactly two once the controller is at rest again.
C3_DebounceCoalescing ==
  variant = "debounce" =>
    /\ TriggersBeforeFirstRun = TriggerIdx =>
         /\ runCount <= 1
         /\ AtRest => runCount = 1
    /\ ( /\ Len(trigLog) >= 2
         /\ TriggersBeforeFirstRun = TriggerIdx \ {Len(trigLog)}
         /\ trigLog[Len(trigLog)] = [runs |-> 1, during |-> FALSE] ) =>
         /\ runCount <= 2
         /\ AtRest => runCount = 2

\* three triggers inside the first debounce window gave one run, and a
\* fourth after its completion gave one more
C3_Witness ==
  /\ variant = "debounce"
  /\ Cardinality(TriggersBeforeFirstRun) >= 3
  /\ Len(trigLog) = Cardinality(TriggersBeforeFirstRun) + 1
  /\ trigLog[Len(trigLog)] = [runs |-> 1, during |-> FALSE]
  /\ AtRest
  /\ runCount = 2

\* ------------------------------------------------------------------- C4
\* C4 (eventual consistency): in the debounce variant, with timers firing
\* and runs terminating, every trigger is eventually followed by a run
\* that begins at or after it (the count of runs begun exceeds the count at
\* the trigger's arrival); so the controller cannot stay at rest with a
\* trigger no later run has covered.  Arrived(i): the i-th trigger has been
\* made; Covered(i): a run has begun since.
Arrived(i) == variant = "debounce" /\ i <= Len(trigLog)
Covered(i) == IF i <= Len(trigLog) THEN runCount > trigLog[i].runs ELSE FALSE

C4_EventualConsistency ==
  \A i \in 1..MaxTriggers : [](Arrived(i) => <>Covered(i))

\* a trigger that arrived during a run has been covered by the follow-up run
C4_Witness ==
  /\ variant = "debounce"
  /\ \E i \in TriggerIdx : trigLog[i].during /\ runCount > trigLog[i].runs
  /\ AtRest

\* ------------------------------------------------------------------- C5
\* C5 (clean restart): at most one LanguageClient is live in any state and
\* it is the one the client variable holds; while a run awaits the config
\* discovery or the executable resolution (that is, before it constructs
\* its client) no client is live: the previous one has been disposed.
C5_CleanRestart ==
  /\ Cardinality(live) <= 1
  /\ live \subseteq {client}
  /\ \A r \in RunIds : rpc[r] \in {"discover", "resolve"} => live = {} /\ client = 0

\* a later run has constructed its client after an earlier run had started one
C5_Witness ==
  /\ lastResult = "Started"
  /\ \E r \in RunIds : r >= 2 /\ rpc[r] = "start"
  /\ Cardinality(live) = 1

\* ------------------------------------------------------------------- C6
\* C6 (full teardown on shutdown): in the debounce variant, once both
\* callers of clearGlobalState() have returned, no LanguageClient is live
\* (none was left and none has been created since).
C6_FullTeardown == (variant = "debounce" /\ ShutdownCompleted) => live = {}

\* ------------------------------------------------------------------- C7
\* C7 (connection failure leaves no handle): when client.start() has
\* rejected, the client variable is undefined and no LanguageClient is live.
C7_StartFailureLeavesNoHandle ==
  \A r \in RunIds : rres[r] = "ConnectionFailed" => client = 0 /\ live = {}

\* ------------------------------------------------------------------- C8
\* C8 (teardown failure does not block the next start): no run of
\* backend.reInitialize() ends because the stop of the previous client
\* failed; the previous client is released and the run goes on.
C8_TeardownFailureDoesNotBlock ==
  \A r \in RunIds : rres[r] # "TeardownFailed"

\* ------------------------------------------------------------------- C9
\* C9 (resolution failure): when the executable resolution has failed,
\* backend.reInitialize() has thrown with no client held and none live;
\* once reInitializeBackend has completed after it, the last logged line is
\* the controller's error line, still no client exists, and no rejection
\* has left reInitializeBackend.
C9_ResolutionFailure ==
  /\ \A r \in RunIds :
       rres[r] = "ResolutionFailed" => rpc[r] = "threw" /\ client = 0 /\ live = {}
  /\ (lastResult = "ResolutionFailed" /\ RunsInProgress = {}) =>
       lastLog = "Error initializing:" /\ client = 0 /\ live = {}
  /\ ~unhandled

\* a run whose resolution failed has completed
C9_Witness ==
  /\ lastResult = "ResolutionFailed"
  /\ RunsInProgress = {}
  /\ lastLog = "Error initializing:"

\* ------------------------------------------------------------------ C10
\* C10 (absent configuration): when the discovery has found no config file,
\* backend.reInitialize() has returned normally, has logged
\* "Configuration file not found.", and no client is held or live, also
\* when the previous run had started one.
C10_AbsentConfiguration ==
  \A r \in RunIds :
    rres[r] = "ConfigAbsent" =>
      /\ rpc[r] = "returned"
      /\ lastLog = "Configuration file not found."
      /\ client = 0
      /\ live = {}

\* the run before had started a client, this one found no config file
C10_Witness ==
  /\ lastResult = "Started"
  /\ \E r \in RunIds : r >= 2 /\ rres[r] = "ConfigAbsent"

\* ------------------------------------------------------------------ C11
\* C11 (idempotent dispose): whenever a call of backend.dispose() that had
\* to stop a client ends, no client is held and none is live, so that a
\* second call finds nothing to do.
C11_IdempotentDispose ==
  [][ \A c \in ClearCalls :
        (cpc[c] = "stop" /\ cpc'[c] = "settled") => (client' = 0 /\ live' = {}) ]_vars

\* ------------------------------------------------------------------ C12
\* C12 (unconditional bookkeeping): every step in which a run completes,
\* after backend.reInitialize() returned or threw alike, leaves
\* isReInitializing and pendingReInit false; in the debounce variant, if
\* pendingReInit was set the step leaves exactly one timer armed, the one
\* reInitializeTimeout names, and otherwise it arms none.
CompletesIn(r) == Settled(r) /\ rpc'[r] = "done"

C12_UnconditionalBookkeeping ==
  [][ \A r \in RunIds :
        CompletesIn(r) =>
          /\ ~isReInitializing'
          /\ ~pendingReInit'
          /\ variant = "debounce" =>
               IF pendingReInit
               THEN timers' = {reInitializeTimeout'} /\ reInitializeTimeout' # 0
               ELSE timers' = timers ]_vars

\* a run that threw has completed with a request pending: the follow-up
\* timer is armed
C12_Witness ==
  /\ variant = "debounce"
  /\ lastResult \in {"TeardownFailed", "ResolutionFailed", "ConnectionFailed"}
  /\ lastLog = "Error initializing:"
  /\ RunsInProgress = {}
  /\ ~isReInitializing
  /\ ~pendingReInit
  /\ Cardinality(timers) = 1
  /\ trigLog[Len(trigLog)] = [runs |-> runCount, during |-> TRUE]

\* ------------------------------------------------------------------ C13
\* C13 (at most two runs per burst): in the debounce variant the triggers
\* between two timer firings form a burst (they arrived with the same
\* number of runs begun).  For every burst, the run in progress when its
\* first trigger arrived, if any, plus the runs begun from then until the
\* next burst starts (or until now, for the last burst) are at most 2.
Burst(r) == {i \in TriggerIdx : trigLog[i].runs = r}
LaterBursts(r) == {q \in (r + 1)..runCount : Burst(q) # {}}
NextBurstOrEnd(r) == IF LaterBursts(r) # {} THEN Min(LaterBursts(r)) ELSE runCount
RunsOfBurst(r) ==
  (IF trigLog[Min(Burst(r))].during THEN 1 ELSE 0) + (NextBurstOrEnd(r) - r)

C13_AtMostTwoRunsPerBurst ==
  variant = "debounce" =>
    \A r \in 0..runCount : Burst(r) # {} => RunsOfBurst(r) <= 2

\* a burst of three triggers, begun during run 1 and continued after its
\* completion, ended with one follow-up run and the controller at rest
C13_Witness ==
  /\ variant = "debounce"
  /\ Cardinality(Burst(1)) >= 3
  /\ trigLog[Min(Burst(1))].during
  /\ ~trigLog[Len(trigLog)].during
  /\ AtRest
  /\ RunsOfBurst(1) = 2

\* ------------------------------------------------------------------ C14
\* C14 (pending implies running): pendingReInit is true only while
\* isReInitializing is true, it is false whenever a timer is armed, and the
\* only step that sets it is a trigger arriving during a run.
C14_PendingImpliesRunning ==
  /\ [](pendingReInit => isReInitializing)
  /\ [](timers # {} => ~pendingReInit)
  /\ [][ (~pendingReInit /\ pendingReInit') =>
           (isReInitializing /\ Len(trigLog') = Len(trigLog) + 1) ]_vars

\* a trigger during a run has set the flag
C14_Witness ==
  /\ pendingReInit
  /\ isReInitializing
  /\ trigLog[Len(trigLog)].during

\* ------------------------------------------------------------------ C15
\* C15 (single timer): at most one timer is armed in any state, and it is
\* the one reInitializeTimeout names; a step that arms a timer leaves it as
\* the only armed one.
C15_SingleTimer ==
  /\ [](Cardinality(timers) <= 1 /\ timers \subseteq {reInitializeTimeout})
  /\ [][ \A t \in timers' \ timers : timers' = {t} ]_vars

\* a second trigger inside the window has replaced the armed timer
C15_Witness ==
  /\ variant = "debounce"
  /\ Cardinality(timers) = 1
  /\ runCount = 0
  /\ Len(trigLog) >= 2

\* ------------------------------------------------------------------ C16
\* C16 (trigger during a run arms nothing): a trigger step taken while
\* isReInitializing is true ends with pendingReInit set, no timer armed and
\* no run begun; and in no state is a timer armed while isReInitializing is
\* true, so a firing timer never finds a run in progress.
C16_TriggerDuringRunArmsNothing ==
  /\ [](~(timers # {} /\ isReInitializing))
  /\ [][ (variant = "debounce" /\ isReInitializing /\ Len(trigLog') > Len(trigLog)) =>
           /\ pendingReInit'
           /\ timers' = {}
           /\ runCount' = runCount
           /\ rpc' = rpc ]_vars

\* two triggers arrived during run 2, which is still inside the backend
C16_Witness ==
  /\ variant = "debounce"
  /\ Cardinality(TriggersDuring(2)) >= 2
  /\ InBackend(2)
  /\ pendingReInit
  /\ timers = {}

\* ------------------------------------------------------------------ C17
\* C17 (handle/state invariant): no client is held while the session is
\* Starting (a run awaits discovery, resolution or client.start) nor while
\* it is Stopped (nothing in progress and the last run did not start a
\* client).
SessionStarting == \E r \in RunIds : rpc[r] \in {"discover", "resolve", "start"}
SessionStopping ==
  \/ \E r \in RunIds : rpc[r] = "stop"
  \/ \E c \in ClearCalls : cpc[c] = "stop"
SessionStopped ==
  /\ ~SessionStarting
  /\ ~SessionStopping
  /\ RunsInProgress = {}
  /\ lastResult # "Started"

C17_HandleStateInvariant ==
  (SessionStarting \/ SessionStopped) => client = 0

\* ------------------------------------------------------------------ C18
\* C18 (no stacked prompts): at most one "Dprint configuration changed"
\* prompt is open in any state, and configChangePromptVisible is true
\* exactly while one is open; a step that opens a prompt starts from none
\* open and begins no run, so a run begins only with a direct request or
\* with the "Refresh" answer.
C18_NoStackedPrompts ==
  /\ [](openPrompts <= 1 /\ (configChangePromptVisible <=> openPrompts = 1))
  /\ [][ openPrompts' > openPrompts =>
           (openPrompts = 0 /\ runCount' = runCount /\ rpc' = rpc) ]_vars

\* a prompt is open again after an earlier request had begun a second run
C18_Witness ==
  /\ variant = "guard"
  /\ openPrompts = 1
  /\ configChangePromptVisible
  /\ runCount >= 2

\* ------------------------------------------------------------------ C19
\* a step in which the settings-change handler ran
SettingsStep == lastSettings'.tick # lastSettings.tick

\* what every handled settings change satisfies in both variants: it warned
\* exactly if the modes differed and hasShownLspWarning was false, and
\* hasShownLspWarning is true exactly if it warned
WarningDecision ==
  lastSettings.outcome # "none" =>
    /\ lastSettings.outcome = "warned" <=>
         (lastSettings.mismatch /\ ~lastSettings.shownBefore)
    /\ hasShownLspWarning <=> lastSettings.outcome = "warned"
    /\ lastSettings.mismatch <=> configuredLsp # BackendIsLsp

\* a step that shows the warning starts nothing; the warning is not shown
\* by two consecutive settings changes; two consecutive settings changes
\* with a mismatch differ in their outcome
WarningSteps ==
  /\ (SettingsStep /\ lastSettings'.outcome = "warned") =>
       UNCHANGED << ctlVars, trigLog, promptVars, runCount, rpc >>
  /\ (SettingsStep /\ lastSettings.outcome = "warned") =>
       lastSettings'.outcome # "warned"
  /\ (SettingsStep /\ lastSettings.outcome # "none" /\ lastSettings.mismatch
        /\ lastSettings'.mismatch) =>
       lastSettings'.outcome # lastSettings.outcome

\* the settings change called debounceReInitializeBackend(): trigger()
CalledTrigger ==
  /\ Len(trigLog') = Len(trigLog) + 1
  /\ IF isReInitializing THEN pendingReInit' ELSE timers' # {}

RequestsWhileIdle == {i \in TriggerIdx : ~trigLog[i].during}

C20_GuardDropsMidRunRequests ==
  /\ [](variant = "guard" =>
          /\ runCount = Cardinality(RequestsWhileIdle)
          /\ ~pendingReInit
          /\ timers = {})
  /\ [][ (variant = "guard" /\ DuringRun /\ Len(trigLog') > Len(trigLog)) =>
           (runCount' = runCount /\ rpc' = rpc /\ UNCHANGED ctlVars) ]_vars

\* two requests arrived during run 1, which has completed: still one run
C20_Witness ==
  /\ variant = "guard"
  /\ Cardinality(TriggersDuring(1)) >= 2
  /\ RunsInProgress = {}
  /\ runCount = 1
====
